---- MODULE Spec2Model ----
(***************************************************************************)
(* A model of SlickCTk's context menu (src/src/SlickCTk/                   *)
(* slick_context_menu.py): the construction of the menu frames from the    *)
(* menu_choices mapping, the placement arithmetic of calc_menu_position,   *)
(* and the hover / click handlers that place and forget the menu frames.   *)
(*                                                                         *)
(* Conventions.                                                            *)
(*  - A menu frame (_ContextMenuMainframe) is named by the path of button  *)
(*    indices that leads to it: <<>> is the top-level menu, <<2>> the      *)
(*    submenu of the second button of the top-level menu.  A button is     *)
(*    named by the path of its menu followed by its index, so a submenu    *)
(*    and its SubmenuButton carry the same path.                           *)
(*  - winfo_ismapped() is read as "the frame is placed": place() makes a   *)
(*    frame visible and place_forget() hides it.                           *)
(*  - Python floats are exact rationals here.  Every value that            *)
(*    calc_menu_position computes is a multiple of 1/dpi, so a coordinate  *)
(*    v is kept as the integer v * dpi (scale_factor = dpi / 96).          *)
(*  - after(ms, f) timers are a bag of pending checks; a pending check may *)
(*    fire at any later moment.                                            *)
(***************************************************************************)
EXTENDS Integers, Sequences, FiniteSets, TLC

VARIABLES
    env,            \* DPI and window geometry read through winfo_* / DPIScaler
    menu_choices,   \* the mapping handed to SlickContextMenu(...)
    menus,          \* the frames built from it: path -> buttons, descendant_submenus
    built,          \* whether SlickContextMenu.__init__ has run
    place_info,     \* per menu frame: Unplaced, or the <<x, y>> it was placed at
    wrapper,        \* whether the SlickContextMenu wrapper frame is placed
    focus,          \* the frame that focus_set() was last called on, or NoFocus
    pointer,        \* the button under the mouse pointer, or NoWidget
    pending,        \* bag of scheduled after() checks: <<kind, submenu>> -> count
    last,           \* the handler that ran last, with what it observed
    geo             \* a direct call of calc_menu_position: arguments and result

vars == <<env, menu_choices, menus, built, place_info, wrapper, focus, pointer,
          pending, last, geo>>

(***************************************************************************)
(* Program constants                                                       *)
(***************************************************************************)
DEFAULT_DPI == 96
submenu_x_shift_left == 4
submenu_y_shift_up == 8
shift_y_amount == 4
MENU_PADDING_X == 4
MENU_PADDING_Y == 4
BUTTON_WIDTH == 140
BUTTON_HEIGHT == 28

(***************************************************************************)
(* Bounds of the model                                                     *)
(***************************************************************************)
MaxPending == 2
\* calc_menu_position is explored on a grid of GeoUnit pixels, MaxCell cells
\* wide, at the DPI values 48, 96, ... 48 * MaxDpiStep
GeoUnit == 12
MaxCell == 4
MaxDpiStep == 4
\* create_menu is explored on mappings of at most MaxEntries entries
MaxEntries == 2
\* The wide menu has one submenu that holds WideFanout submenus
WideFanout == 18

Unplaced == <<>>
NoWidget == <<>>
NoFocus == <<0>>
Main == <<>>

Front(p) == SubSeq(p, 1, Len(p) - 1)
Last(p) == p[Len(p)]

(***************************************************************************)
(* The menu_choices mapping.  An entry is <<text, kind, content>>; kind is *)
(* "callable" (content names the action), "dict" (content is the nested    *)
(* mapping, again a sequence of entries) or "other" (any value that is     *)
(* neither, such as 42).  A dict keeps insertion order, hence a sequence.  *)
(***************************************************************************)
Action(text) == <<text, "callable", <<>>>>
Nested(text, sub) == <<text, "dict", sub>>
Other(text) == <<text, "other", <<>>>>

\* The demo mapping of the module's __main__ block, three submenus deep, with
\* fewer leaf buttons and a second submenu at the deepest level so that the
\* first and the last level have sibling submenus.
menu_dict ==
    << Action("Copy"),
       Nested("Submenu", << Action("Sub-Copy") >>),
       Nested("Submenu1",
              << Action("Sub-Copy1"),
                 Nested("SubSubMenu",
                        << Action("Sub-Cut1"),
                           Nested("SubSubSubmenu3", << Action("Sub-Paste1") >>),
                           Nested("SubSubSubmenu4", << Action("Sub-Paste2") >>) >>) >>) >>

(***************************************************************************)
(* Construction: _ContextMenuSubframe.process_menu_choices and the frames  *)
(* it creates.                                                             *)
(***************************************************************************)
text_padding == "    "

RECURSIVE process_menu_choices(_)
\* The buttons packed for a mapping, in order: a ContextMenuButton for a
\* callable, a SubmenuButton for a dict, nothing for anything else.
process_menu_choices(mc) ==
    IF mc = <<>> THEN <<>>
    ELSE LET e == Head(mc)
             rest == process_menu_choices(Tail(mc))
         IN  IF e[2] = "callable"
                THEN <<[text |-> text_padding \o e[1], kind |-> "button",
                         content |-> <<>>]>> \o rest
             ELSE IF e[2] = "dict"
                THEN <<[text |-> text_padding \o e[1], kind |-> "submenu",
                         content |-> e[3]]>> \o rest
             ELSE rest

NoFrames == [p \in {} |-> 0]

RECURSIVE ContextMenuMainframe(_, _)
RECURSIVE AddSubmenus(_, _, _)
\* Variant of AddSubmenus that builds the submenus of the top-level menu only
\* and leaves the deeper ones to be built later
AddSubmenus_top_level_only(path, buttons, i) ==
    IF i > Len(buttons) \/ path # <<>> THEN NoFrames
    ELSE LET rest == AddSubmenus(path, buttons, i + 1)
         IN  IF buttons[i].kind = "submenu"
                THEN ContextMenuMainframe(Append(path, i), buttons[i].content) @@ rest
                ELSE rest

\* The frames created below the buttons i..Len(buttons) of the menu at path.
AddSubmenus(path, buttons, i) ==
    IF i > Len(buttons) THEN NoFrames
    ELSE LET rest == AddSubmenus(path, buttons, i + 1)
         IN  IF buttons[i].kind = "submenu"
                THEN ContextMenuMainframe(Append(path, i), buttons[i].content) @@ rest
                ELSE rest

\* _ContextMenuMainframe.__init__: the frame at path and, through add_submenu,
\* every frame below it.  The result maps each path to its frame.
ContextMenuMainframe(path, mc) ==
    LET buttons == process_menu_choices(mc)
        subs == AddSubmenus(path, buttons, 1)
        idx == {i \in 1..Len(buttons) : buttons[i].kind = "submenu"}
        frame == [buttons |-> [i \in 1..Len(buttons) |->
                                  [text |-> buttons[i].text, kind |-> buttons[i].kind]],
                  descendant_submenus |->
                      [k \in 1..Cardinality(idx) |->
                          Append(path, CHOOSE i \in idx :
                                          Cardinality({j \in idx : j < i}) = k - 1)]]
    IN  (path :> frame) @@ subs

SlickContextMenu(mc) == ContextMenuMainframe(Main, mc)

Menus == DOMAIN menus
Submenus == Menus \ {Main}
Buttons == UNION {{Append(m, i) : i \in 1..Len(menus[m].buttons)} : m \in Menus}
MenuOf(b) == Front(b)
KindOf(b) == menus[MenuOf(b)].buttons[Last(b)].kind
SubmenuButtons == {b \in Buttons : KindOf(b) = "submenu"}
LeafButtons == {b \in Buttons : KindOf(b) = "button"}
Children(m) == {s \in Submenus : Front(s) = m}
IsPrefix(p, q) == Len(p) <= Len(q) /\ SubSeq(q, 1, Len(p)) = p
Subtree(m) == {d \in Menus : IsPrefix(m, d)}

(***************************************************************************)
(* Widget geometry read through winfo_*.  A frame holds its buttons packed *)
(* top to bottom inside the padding; customtkinter scales widget sizes and *)
(* placed coordinates by the scale factor.                                 *)
(***************************************************************************)
Scaled(n) == (n * env.dpi) \div DEFAULT_DPI
winfo_reqwidth(m) == Scaled(BUTTON_WIDTH + 2 * MENU_PADDING_X)
winfo_reqheight(m) == Scaled(Len(menus[m].buttons) * BUTTON_HEIGHT + 2 * MENU_PADDING_Y)
\* Screen position of a placed frame: place(x, y) takes scale-normalised
\* coordinates, kept here as <<x * dpi, y * dpi>>.
winfo_rootx(m) == env.root_x + (place_info[m][1] \div DEFAULT_DPI)
winfo_rooty(m) == env.root_y + (place_info[m][2] \div DEFAULT_DPI)
button_rooty(b) ==
    winfo_rooty(MenuOf(b)) + Scaled(MENU_PADDING_Y + (Last(b) - 1) * BUTTON_HEIGHT)

(***************************************************************************)
(* _ContextMenuMainframe.calc_menu_position.  The result <<x, y>> holds    *)
(* the returned floats multiplied by env.dpi: dividing by scale_factor =   *)
(* dpi / 96 is multiplying by 96 / dpi.                                    *)
(***************************************************************************)
\* Variant of window_edge_y: the commented-out ALTERNATE METHOD, which moves
\* a top-level menu up by the spill instead of flipping it
window_edge_y_by_spill(menu_depth, menu_height, screen_y) ==
    LET normalized_y == screen_y * DEFAULT_DPI
        screen_y_spill == screen_y + menu_height - env.window_height
        y == IF menu_depth = 1
                THEN normalized_y - screen_y_spill * DEFAULT_DPI
                ELSE (env.window_height - menu_height) * DEFAULT_DPI
    IN  IF screen_y + menu_height > env.window_height
           THEN (IF y < 0 THEN 0 ELSE y)
           ELSE normalized_y

\* Variant of window_edge_y without the clamp of a negative y
window_edge_y_unclamped(menu_depth, menu_height, screen_y) ==
    IF screen_y + menu_height > env.window_height
       THEN (IF menu_depth = 1
                THEN (screen_y - menu_height) * DEFAULT_DPI
                ELSE (env.window_height - menu_height) * DEFAULT_DPI)
       ELSE screen_y * DEFAULT_DPI

\* The WINDOW-EDGE ADJUST of y: the menu would spill over the bottom edge
window_edge_y(menu_depth, menu_height, screen_y) ==
    LET normalized_y == screen_y * DEFAULT_DPI
        y == IF menu_depth = 1
                THEN normalized_y - menu_height * DEFAULT_DPI
                ELSE (env.window_height - menu_height) * DEFAULT_DPI
    IN  IF screen_y + menu_height > env.window_height
           THEN (IF y < 0 THEN 0 ELSE y)
           ELSE normalized_y

\* Variant of window_edge_x that moves a top-level menu to the left by the
\* overlap of a submenu
window_edge_x_nudge_all(menu_depth, menu_width, parent_menu_width, screen_x) ==
    IF screen_x + menu_width > env.window_width
       THEN (IF menu_depth = 1
                THEN (screen_x - menu_width) * DEFAULT_DPI
                ELSE (screen_x - parent_menu_width - menu_width) * DEFAULT_DPI
                     + submenu_x_shift_left * env.dpi)
       ELSE screen_x * DEFAULT_DPI - submenu_x_shift_left * env.dpi

\* Variant of window_edge_x that takes the overlap off a flipped submenu
\* instead of adding it
window_edge_x_minus_shift(menu_depth, menu_width, parent_menu_width, screen_x) ==
    IF screen_x + menu_width > env.window_width
       THEN (IF menu_depth = 1
                THEN (screen_x - menu_width) * DEFAULT_DPI
                ELSE (screen_x - parent_menu_width - menu_width) * DEFAULT_DPI
                     - submenu_x_shift_left * env.dpi)
       ELSE (IF menu_depth > 1
                THEN screen_x * DEFAULT_DPI - submenu_x_shift_left * env.dpi
                ELSE screen_x * DEFAULT_DPI)

\* The WINDOW-EDGE ADJUST of x: the menu would spill over the right edge, or
\* it is a submenu to be moved onto its parent's edge
window_edge_x(menu_depth, menu_width, parent_menu_width, screen_x) ==
    LET normalized_x == screen_x * DEFAULT_DPI
    IN  IF screen_x + menu_width > env.window_width
           THEN (IF menu_depth = 1
                    THEN normalized_x - menu_width * DEFAULT_DPI
                 ELSE IF menu_depth > 1
                    THEN normalized_x
                         - (parent_menu_width + menu_width) * DEFAULT_DPI
                         + submenu_x_shift_left * env.dpi
                 ELSE normalized_x)
           ELSE (IF menu_depth > 1
                    THEN normalized_x - submenu_x_shift_left * env.dpi
                    ELSE normalized_x)

\* Variant of left_edge that pins a negative x to the left edge and leaves
\* the shifted y of a submenu uncapped
left_edge_uncapped(menu_depth, menu_width, menu_height, x, y) ==
    IF x < 0
       THEN << (env.window_width - menu_width) * DEFAULT_DPI,
               IF menu_depth > 1 THEN y + submenu_y_shift_up * env.dpi ELSE y >>
       ELSE <<x, y>>

\* Variant of left_edge that does not shift the y of a submenu
left_edge_no_shift(menu_depth, menu_width, menu_height, x, y) ==
    IF x < 0
       THEN << (env.window_width - menu_width) * DEFAULT_DPI,
               IF menu_depth > 1 /\ y > (env.window_height - menu_height) * DEFAULT_DPI
                  THEN (env.window_height - menu_height) * DEFAULT_DPI
                  ELSE y >>
       ELSE <<x, y>>

\* The correction of a negative x, with the shift down of a submenu
left_edge(menu_depth, menu_width, menu_height, x, y) ==
    LET y_cap == (env.window_height - menu_height) * DEFAULT_DPI
        y_down == y + submenu_y_shift_up * env.dpi
    IN  IF x < 0
           THEN << (env.window_width - menu_width) * DEFAULT_DPI,
                   IF menu_depth > 1
                      THEN (IF y_down > y_cap THEN y_cap ELSE y_down)
                      ELSE y >>
           ELSE <<x, y>>

calc_menu_position(menu_width, menu_height, x_in, y_in, menu_depth, parent_menu_width) ==
    LET screen_x == x_in - env.root_x
        screen_y == y_in - env.root_y
        y == window_edge_y(menu_depth, menu_height, screen_y)
        x == window_edge_x(menu_depth, menu_width, parent_menu_width, screen_x)
    IN  left_edge(menu_depth, menu_width, menu_height, x, y)

\* _ContextMenuSubframe.calc_submenu_position, for the submenu of button.
calc_submenu_position(submenu, button) ==
    LET parent == MenuOf(button)
        shift_submenu_x == winfo_rootx(parent) + winfo_reqwidth(parent)
        shift_submenu_y == button_rooty(button) - shift_y_amount
        parent_menu_width == winfo_reqwidth(parent)
    IN  calc_menu_position(winfo_reqwidth(submenu), winfo_reqheight(submenu),
                           shift_submenu_x, shift_submenu_y, 2, parent_menu_width)

(***************************************************************************)
(* Frame state: what place(), place_forget() and focus_set() change.  The  *)
(* handlers below thread a record [place, focus] through their calls.      *)
(***************************************************************************)
UI == [place |-> place_info, focus |-> focus, wrapper |-> wrapper]
winfo_ismapped(st, m) == st.place[m] # Unplaced

\* _ContextMenuMainframe.open_menu
open_menu(st, m, xy) == [st EXCEPT !.place[m] = xy, !.focus = m]

RECURSIVE close_menu(_, _)
RECURSIVE close_submenus_from_inverted(_, _, _)
\* Variant of close_submenus_from with the mapped test inverted
close_submenus_from_inverted(st, m, i) ==
    LET subs == menus[m].descendant_submenus
    IN  IF i > Len(subs) THEN st
        ELSE close_submenus_from_inverted(
                 IF ~winfo_ismapped(st, subs[i]) THEN close_menu(st, subs[i]) ELSE st,
                 m, i + 1)

RECURSIVE close_submenus_from(_, _, _)
\* The loop of close_all_submenus over descendant_submenus[i..]
close_submenus_from(st, m, i) ==
    LET subs == menus[m].descendant_submenus
    IN  IF i > Len(subs) THEN st
        ELSE close_submenus_from(
                 IF winfo_ismapped(st, subs[i]) THEN close_menu(st, subs[i]) ELSE st,
                 m, i + 1)

\* Variant of close_all_submenus that forgets the placement of the direct
\* submenus without closing what is below them
close_all_submenus_forget_only(st, m) ==
    [st EXCEPT !.focus = m,
               !.place = [c \in DOMAIN st.place |->
                             IF Front(c) = m /\ c # Main THEN Unplaced ELSE st.place[c]]]

\* Variant of close_all_submenus that takes the focus and closes nothing
close_all_submenus_focus_only(st, m) == [st EXCEPT !.focus = m]

\* _ContextMenuMainframe.close_all_submenus
close_all_submenus(st, m) == close_submenus_from([st EXCEPT !.focus = m], m, 1)

\* Variant of close_menu that forgets the placement of every frame, the
\* top-level one included
close_menu_to_top(st, m) ==
    [st EXCEPT !.place = [c \in DOMAIN st.place |-> Unplaced], !.focus = m]

\* Variant of close_menu that forgets only its own placement
close_menu_self_only(st, m) == [st EXCEPT !.place[m] = Unplaced, !.focus = m]

\* _ContextMenuMainframe.close_menu
close_menu(st, m) ==
    LET s1 == close_all_submenus(st, m)
    IN  [s1 EXCEPT !.place[m] = Unplaced]

\* Variant of handle_right_click that leaves the open submenus as they are
handle_right_click_keep_submenus(st, x_root, y_root) ==
    open_menu(st, Main,
              calc_menu_position(winfo_reqwidth(Main), winfo_reqheight(Main),
                                 x_root, y_root, 1, 0))

\* Variant of handle_right_click that places the frame at the click point as
\* it came with the event
handle_right_click_raw(st, x_root, y_root) ==
    open_menu(close_all_submenus(st, Main), Main,
              <<x_root * DEFAULT_DPI, y_root * DEFAULT_DPI>>)

\* _ContextMenuMainframe.handle_right_click
handle_right_click(st, x_root, y_root) ==
    LET s1 == close_all_submenus(st, Main)
        xy == calc_menu_position(winfo_reqwidth(Main), winfo_reqheight(Main),
                                 x_root, y_root, 1, 0)
    IN  open_menu(s1, Main, xy)

(***************************************************************************)
(* Hover detection.                                                        *)
(***************************************************************************)
\* winfo_name of a frame: "!_contextmenumainframe" followed by its creation
\* number when that is above 1.  Frames are created in pre-order.
CreatedBefore(q, p) ==
    \/ Len(q) < Len(p) /\ IsPrefix(q, p)
    \/ \E k \in 1..Len(q) :
          /\ k <= Len(p)
          /\ SubSeq(q, 1, k - 1) = SubSeq(p, 1, k - 1)
          /\ q[k] < p[k]
winfo_name(m) == 1 + Cardinality({q \in Menus : CreatedBefore(q, m)})

RECURSIVE DigitsPrefix(_, _)
\* Whether the decimal digits of j begin those of k.
DigitsPrefix(j, k) == j = k \/ (k >= 10 /\ DigitsPrefix(j, k \div 10))
\* name(a) in path-of-a-widget-inside(b), as Python's substring test
NameIn(a, b) ==
    \/ winfo_name(a) = 1
    \/ winfo_name(b) # 1 /\ DigitsPrefix(winfo_name(a), winfo_name(b))

\* _ContextMenuSubframe.get_widget_at_mouse: winfo_containing finds mapped
\* widgets only.
get_widget_at_mouse(st) ==
    IF pointer # NoWidget /\ winfo_ismapped(st, MenuOf(pointer)) THEN pointer ELSE NoWidget

\* Variant of is_submenu_button_hovered that tests whether the pointer is
\* inside the submenu of the button
is_submenu_button_hovered_inside(st, button) ==
    get_widget_at_mouse(st) # NoWidget /\ MenuOf(get_widget_at_mouse(st)) = button

\* _ContextMenuSubframe.is_submenu_button_hovered
is_submenu_button_hovered(st, button) == get_widget_at_mouse(st) = button

\* _ContextMenuSubframe.is_submenu_hovered
is_submenu_hovered(st, submenu) ==
    LET w == get_widget_at_mouse(st)
    IN  w # NoWidget /\ NameIn(submenu, MenuOf(w))

(***************************************************************************)
(* The debounced checks.                                                   *)
(***************************************************************************)
\* _ContextMenuSubframe.open_submenu
open_submenu(st, submenu, button) ==
    open_menu(st, submenu, calc_submenu_position(submenu, button))

\* Variant of should_open that takes the button for hovered when it is the
\* one the pointer entered last, wherever the pointer is now
should_open_as_scheduled(st, submenu, button) ==
    /\ winfo_ismapped(st, MenuOf(button))
    /\ ~winfo_ismapped(st, submenu)
    /\ last.entry.anchor = button

\* Variant of should_open that does not look at the pointer
should_open_any_pointer(st, submenu, button) ==
    /\ winfo_ismapped(st, MenuOf(button))
    /\ ~winfo_ismapped(st, submenu)

\* The condition of check_submenu_should_open
should_open(st, submenu, button) ==
    /\ winfo_ismapped(st, MenuOf(button))
    /\ ~winfo_ismapped(st, submenu)
    /\ is_submenu_button_hovered(st, button)

\* Variant of check_submenu_should_open that closes the submenus of the parent
\* before it tests the condition
check_submenu_should_open_close_first(st, submenu, button) ==
    IF winfo_ismapped(st, MenuOf(button))
          /\ ~winfo_ismapped(st, submenu)
          /\ get_widget_at_mouse(st) = button
       THEN open_menu(close_all_submenus(st, MenuOf(button)), submenu,
                      calc_submenu_position(submenu, button))
       ELSE close_all_submenus(st, MenuOf(button))

\* Variant of check_submenu_should_open that tests only that the submenu is
\* not open, and opens it in the corner of the window
check_submenu_should_open_unless_open(st, submenu, button) ==
    IF ~winfo_ismapped(st, submenu)
       THEN open_menu(close_all_submenus(st, MenuOf(button)), submenu, <<0, 0>>)
       ELSE st

\* Variant of check_submenu_should_open that leaves the sibling submenus open
check_submenu_should_open_keep_siblings(st, submenu, button) ==
    IF should_open(st, submenu, button)
       THEN open_submenu(st, submenu, button)
       ELSE st

\* _ContextMenuSubframe.check_submenu_should_open
check_submenu_should_open(st, submenu, button) ==
    IF should_open(st, submenu, button)
       THEN open_submenu(close_all_submenus(st, MenuOf(button)), submenu, button)
       ELSE st

\* The condition of check_submenu_should_close under which the submenu stays
should_stay(st, submenu, button) ==
    is_submenu_button_hovered(st, button) \/ is_submenu_hovered(st, submenu)

\* Variant of check_submenu_should_close that moves a hovered submenu to the
\* corner of the window
check_submenu_should_close_move(st, submenu, button) ==
    IF is_submenu_button_hovered(st, button) \/ is_submenu_hovered(st, submenu)
       THEN [st EXCEPT !.place[submenu] = <<0, 0>>]
       ELSE close_menu(st, submenu)

\* Variant of check_submenu_should_close without the hover test
check_submenu_should_close_always(st, submenu, button) == close_menu(st, submenu)

\* Variant of check_submenu_should_close that tests the button only
check_submenu_should_close_button_only(st, submenu, button) ==
    IF is_submenu_button_hovered(st, button) THEN st ELSE close_menu(st, submenu)

\* _ContextMenuSubframe.check_submenu_should_close
check_submenu_should_close(st, submenu, button) ==
    IF should_stay(st, submenu, button) THEN st ELSE close_menu(st, submenu)

(***************************************************************************)
(* Click handlers.                                                         *)
(***************************************************************************)
\* SlickContextMenu.handle_right_click
wrapper_handle_right_click(st, x_root, y_root) ==
    handle_right_click([st EXCEPT !.wrapper = TRUE], x_root, y_root)

\* Variant of handle_left_click that forgets the wrapper and the top-level
\* frame without closing the submenus
handle_left_click_no_cascade(st) ==
    [st EXCEPT !.wrapper = FALSE, !.place[Main] = Unplaced]

\* SlickContextMenu.handle_left_click
handle_left_click(st) == close_menu([st EXCEPT !.wrapper = FALSE], Main)

\* Variant of handle_button_clicked that leaves the wrapper frame placed
handle_button_clicked_keep_wrapper(st) == close_menu(st, Main)

\* _ContextMenuSubframe.handle_button_clicked
handle_button_clicked(st) == close_menu([st EXCEPT !.wrapper = FALSE], Main)

\* The call func(*args, **kwargs), first statement of the wrapper returned by
\* wrap_button_command: how many times the wrapper calls func, and the frames
\* that are mapped while func runs.
button_func(st) == [calls |-> 1, seen |-> {m \in DOMAIN st.place : winfo_ismapped(st, m)}]
NoFunc == [calls |-> 0, seen |-> {}]

\* The wrapper returned by wrap_button_command: func runs first; when it
\* raises, the exception leaves the wrapper before handle_button_clicked.
wrap_button_command(st, raises) == IF raises THEN st ELSE handle_button_clicked(st)

(***************************************************************************)
(* The state machine of the running menu.                                  *)
(***************************************************************************)
Checks == {"open", "close"} \X Submenus

RECURSIVE SumOver(_, _)
SumOver(f, S) ==
    IF S = {} THEN 0
    ELSE LET c == CHOOSE c \in S : TRUE IN f[c] + SumOver(f, S \ {c})
NumPending == SumOver(pending, DOMAIN pending)

MainEnv ==
    [dpi |-> DEFAULT_DPI, root_x |-> 200, root_y |-> 200,
     window_width |-> 1520, window_height |-> 780]

\* Right-click points (event.x_root, event.y_root): one with room below and
\* to the right, one near the bottom-right corner of the window.
ClickPoints == {<<300, 300>>, <<1700, 950>>}

NoCall == [phase |-> "none"]
\* What was on screen when the pointer last entered a SubmenuButton
NoEntry == [anchor |-> NoWidget, was_open |-> FALSE, siblings |-> {}]
Idle == [op |-> "init", arg |-> Main, raised |-> FALSE, hovered |-> FALSE,
         closed |-> {}, hidden |-> {}, again |-> FALSE, entry |-> NoEntry,
         func |-> NoFunc]

Init ==
    /\ env = MainEnv
    /\ menu_choices = menu_dict
    /\ menus = SlickContextMenu(menu_dict)
    /\ built = TRUE
    /\ place_info = [m \in DOMAIN menus |-> Unplaced]
    /\ wrapper = FALSE
    /\ focus = NoFocus
    /\ pointer = NoWidget
    /\ pending = [c \in {"open", "close"} \X ((DOMAIN menus) \ {Main}) |-> 0]
    /\ last = Idle
    /\ geo = NoCall

Apply(st) ==
    /\ place_info' = st.place
    /\ focus' = st.focus
    /\ wrapper' = st.wrapper

MappedChildren(m) == {c \in Children(m) : winfo_ismapped(UI, c)}
\* What the handler that ran did: op and arg name it; raised: the button's
\* action raised; hovered: the condition a check evaluated; closed: the menus
\* it called close_menu on; hidden: the menus it unmapped; again: it called
\* close_menu on a menu the previous handler had called it on; entry: the
\* SubmenuButton the pointer entered last, whether its submenu was mapped at
\* that moment, and the sibling submenus that were; func: the call of the
\* button's action by the handler.  For a right-click arg is the click point.
Note(op, arg, raised, hovered, closed, st) ==
    last' = [op |-> op, arg |-> arg, raised |-> raised, hovered |-> hovered,
             closed |-> closed,
             hidden |-> {m \in Menus : winfo_ismapped(UI, m) /\ ~winfo_ismapped(st, m)},
             again |-> (closed \cap last.closed # {}),
             entry |-> IF op = "hover_enter"
                          THEN [anchor |-> arg,
                                was_open |-> winfo_ismapped(UI, arg),
                                siblings |-> MappedChildren(MenuOf(arg)) \ {arg}]
                          ELSE last.entry,
             func |-> IF op = "button_click" THEN button_func(UI) ELSE NoFunc]

\* <Button-3> on the application window.  The top-level frame is placed with
\* a corner at the click point, which leaves the pointer over no button.
RightClick(pt) ==
    /\ built
    /\ Apply(wrapper_handle_right_click(UI, pt[1], pt[2]))
    /\ pointer' = NoWidget
    /\ Note("right_click", pt, FALSE, FALSE, MappedChildren(Main),
            wrapper_handle_right_click(UI, pt[1], pt[2]))
    /\ UNCHANGED <<env, menu_choices, menus, built, pending, geo>>

\* <Button-1> on the wrapper frame, which covers the window below the menus
LeftClick ==
    /\ built
    /\ wrapper
    /\ get_widget_at_mouse(UI) = NoWidget
    /\ Apply(handle_left_click(UI))
    /\ Note("left_click", Main, FALSE, FALSE, {Main}, handle_left_click(UI))
    /\ UNCHANGED <<env, menu_choices, menus, built, pointer, pending, geo>>

\* A click on a ContextMenuButton runs its wrapped command
ButtonClick(b, raises) ==
    /\ built
    /\ KindOf(b) = "button"
    /\ get_widget_at_mouse(UI) = b
    /\ Apply(wrap_button_command(UI, raises))
    /\ Note("button_click", b, raises, FALSE, IF raises THEN {} ELSE {Main},
            wrap_button_command(UI, raises))
    /\ UNCHANGED <<env, menu_choices, menus, built, pointer, pending, geo>>

Schedule(kind, submenu) ==
    /\ NumPending < MaxPending
    /\ pending' = [pending EXCEPT ![<<kind, submenu>>] = @ + 1]

\* _ContextMenuSubframe.delay_check_submenu_should_open: after(200, ...)
delay_check_submenu_should_open(submenu, button) == Schedule("open", submenu)

\* _ContextMenuSubframe.delay_check_submenu_should_close: after(500, ...)
delay_check_submenu_should_close(submenu, button) == Schedule("close", submenu)

\* <Enter> on a SubmenuButton: submenu_button_hover_in
HoverEnter(b) ==
    /\ built
    /\ KindOf(b) = "submenu"
    /\ winfo_ismapped(UI, MenuOf(b))
    /\ pointer \notin SubmenuButtons
    /\ pointer' = b
    /\ delay_check_submenu_should_open(b, b)
    /\ Note("hover_enter", b, FALSE, FALSE, {}, UI)
    /\ UNCHANGED <<env, menu_choices, menus, built, place_info, wrapper, focus, geo>>

\* Where the pointer can go: off the menus, or onto a button of a mapped menu
Targets == {NoWidget} \cup {b \in LeafButtons : winfo_ismapped(UI, MenuOf(b))}

\* <Leave> on a SubmenuButton
HoverLeave(b, to) ==
    /\ built
    /\ pointer = b
    /\ KindOf(b) = "submenu"
    /\ to \in Targets
    /\ pointer' = to
    /\ delay_check_submenu_should_close(b, b)
    /\ Note("hover_leave", b, FALSE, FALSE, {}, UI)
    /\ UNCHANGED <<env, menu_choices, menus, built, place_info, wrapper, focus, geo>>

\* Pointer motion that crosses no SubmenuButton
PointerMove(to) ==
    /\ built
    /\ pointer \notin SubmenuButtons
    /\ to \in Targets
    /\ to # pointer
    /\ pointer' = to
    /\ Note("move", to, FALSE, FALSE, {}, UI)
    /\ UNCHANGED <<env, menu_choices, menus, built, place_info, wrapper, focus,
                   pending, geo>>

\* <FocusOut> on a submenu frame that holds the focus
FocusOut(submenu) ==
    /\ built
    /\ focus = submenu
    /\ submenu # Main
    /\ focus' = NoFocus
    /\ delay_check_submenu_should_close(submenu, submenu)
    /\ Note("focus_out", submenu, FALSE, FALSE, {}, UI)
    /\ UNCHANGED <<env, menu_choices, menus, built, place_info, wrapper, pointer, geo>>

\* <FocusOut> on the top-level frame, because a submenu took the focus or
\* because the focus left the window: no handler is bound to it
FocusOutMain ==
    /\ built
    /\ winfo_ismapped(UI, Main)
    /\ focus' = IF focus = Main THEN NoFocus ELSE focus
    /\ Note("focus_out", Main, FALSE, FALSE, {}, UI)
    /\ UNCHANGED <<env, menu_choices, menus, built, place_info, wrapper, pointer,
                   pending, geo>>

\* A scheduled open-check fires
FireOpen(submenu) ==
    /\ built
    /\ pending[<<"open", submenu>>] > 0
    /\ pending' = [pending EXCEPT ![<<"open", submenu>>] = @ - 1]
    /\ Apply(check_submenu_should_open(UI, submenu, submenu))
    /\ Note("check_open", submenu, FALSE, should_open(UI, submenu, submenu),
            IF should_open(UI, submenu, submenu)
               THEN MappedChildren(MenuOf(submenu)) ELSE {},
            check_submenu_should_open(UI, submenu, submenu))
    /\ UNCHANGED <<env, menu_choices, menus, built, pointer, geo>>

\* Variant of FireClose in which the check schedules itself again
FireClose_rearm(submenu) ==
    /\ built
    /\ pending[<<"close", submenu>>] > 0
    /\ pending' = pending
    /\ Apply(check_submenu_should_close(UI, submenu, submenu))
    /\ Note("check_close", submenu, FALSE, should_stay(UI, submenu, submenu),
            IF should_stay(UI, submenu, submenu) THEN {} ELSE {submenu},
            check_submenu_should_close(UI, submenu, submenu))
    /\ UNCHANGED <<env, menu_choices, menus, built, pointer, geo>>

\* A scheduled close-check fires
FireClose(submenu) ==
    /\ built
    /\ pending[<<"close", submenu>>] > 0
    /\ pending' = [pending EXCEPT ![<<"close", submenu>>] = @ - 1]
    /\ Apply(check_submenu_should_close(UI, submenu, submenu))
    /\ Note("check_close", submenu, FALSE, should_stay(UI, submenu, submenu),
            IF should_stay(UI, submenu, submenu) THEN {} ELSE {submenu},
            check_submenu_should_close(UI, submenu, submenu))
    /\ UNCHANGED <<env, menu_choices, menus, built, pointer, geo>>

Next ==
    \/ \E pt \in ClickPoints : RightClick(pt)
    \/ LeftClick
    \/ \E b \in Buttons, raises \in BOOLEAN : ButtonClick(b, raises)
    \/ \E b \in Buttons : HoverEnter(b)
    \/ \E b \in Buttons, to \in Buttons \cup {NoWidget} : HoverLeave(b, to)
    \/ \E to \in Buttons \cup {NoWidget} : PointerMove(to)
    \/ \E s \in Submenus : FocusOut(s)
    \/ FocusOutMain
    \/ \E s \in Submenus : FireOpen(s)
    \/ \E s \in Submenus : FireClose(s)

Spec == Init /\ [][Next]_vars

TypeOK ==
    /\ pointer \in Buttons \cup {NoWidget}
    /\ NumPending <= MaxPending

(***************************************************************************)
(* Properties of the running menu                                          *)
(***************************************************************************)
Visible(m) == place_info[m] # Unplaced
\* The pointer is over the SubmenuButton of submenu s, which is on screen
PointerOnAnchor(s) == pointer = s /\ Visible(MenuOf(s))
\* The pointer is over a widget inside the frame of submenu s
PointerOnBody(s) == pointer # NoWidget /\ MenuOf(pointer) = s /\ Visible(s)

\* C1: in every reachable state each menu, top-level or submenu, has at most
\* one direct child submenu that is visible.
C1_SingleOpenPerLevel ==
    \A m \in Menus : Cardinality({c \in Children(m) : Visible(c)}) <= 1

\* An open-check has just opened a submenu while a sibling was open.
C1_Witness ==
    /\ last.op = "check_open"
    /\ last.hovered
    /\ last.hidden # {}
    /\ Visible(last.arg)
    /\ Cardinality({c \in Children(MenuOf(last.arg)) : Visible(c)}) = 1

\* C2: a step that calls close_menu on a menu leaves that menu and every
\* submenu below it closed, whatever checks are still pending.
C2_CloseClosesSubtree ==
    \A m \in last.closed : \A d \in Subtree(m) : ~Visible(d)

\* close_menu has just closed a menu together with two levels of submenus
\* below it, while a check was pending.
C2_Witness ==
    /\ NumPending > 0
    /\ \E m \in last.closed :
          /\ last.hidden \subseteq Subtree(m)
          /\ \E d \in last.hidden : Len(d) = Len(m) + 2

\* C3: whenever a submenu is visible, its parent menu is visible too.
C3_NoOrphan ==
    \A s \in Submenus : Visible(s) => Visible(Front(s))

\* A chain of three visible menus: top-level, submenu, sub-submenu.
C3_Witness ==
    \E s \in Submenus : Len(s) = 2 /\ Visible(s) /\ Visible(Front(s)) /\ Visible(Main)

\* C4 (as claimed): after a leaf button at any depth has been activated, the
\* top-level menu and every menu on the chain down to the leaf are closed.
C4_ActivationCollapsesChain ==
    last.op = "button_click" =>
        \A m \in Menus : IsPrefix(m, MenuOf(last.arg)) => ~Visible(m)

\* C5 (as claimed): when the action of an activated leaf raises, the whole
\* top-level menu is closed afterwards nevertheless.
C5_ClosedAfterFailedAction ==
    (last.op = "button_click" /\ last.raised) =>
        (\A m \in Menus : ~Visible(m)) /\ ~wrapper

\* C6: a close-check for an open submenu that fires while the pointer is over
\* the submenu's button or over the submenu's body changes no visibility.
C6_CloseCheckKeepsHovered ==
    [][\A s \in Submenus :
          (/\ last'.op = "check_close"
           /\ last'.arg = s
           /\ Visible(s)
           /\ (PointerOnAnchor(s) \/ PointerOnBody(s)))
          => (\A m \in Menus : Visible(m)' = Visible(m))]_vars

\* A close-check has fired with the pointer inside the open submenu's body.
C6_Witness ==
    /\ last.op = "check_close"
    /\ PointerOnBody(last.arg)
    /\ Visible(last.arg)

\* C10: in every reachable state and for every menu, close_menu applied twice
\* gives the visibility of close_menu applied once, in which the menu and all
\* of its descendants are closed.
C10_CloseIdempotent ==
    \A m \in Menus :
        LET once == close_menu(UI, m)
            twice == close_menu(once, m)
        IN  /\ \A d \in Menus : winfo_ismapped(twice, d) = winfo_ismapped(once, d)
            /\ \A d \in Subtree(m) : ~winfo_ismapped(twice, d)

\* Two handlers in a row have called close_menu on the same submenu.
C10_Witness ==
    /\ last.op = "check_close"
    /\ last.again
    /\ last.closed = {last.arg}
    /\ ~Visible(last.arg)

(***************************************************************************)
(* Properties of the debounced checks                                      *)
(***************************************************************************)
\* The handler that runs in this step is the open-check / close-check of s
FiresOpenCheck(s) == last'.op = "check_open" /\ last'.arg = s
FiresCloseCheck(s) == last'.op = "check_close" /\ last'.arg = s
\* The condition of the open-check of s, read off the screen before the step
OpenCondition(s) == Visible(MenuOf(s)) /\ ~Visible(s) /\ PointerOnAnchor(s)
SameScreen == place_info' = place_info /\ focus' = focus /\ wrapper' = wrapper

\* C11: a step makes a submenu visible if and only if it is the firing of an
\* open-check of that submenu at a moment when the parent menu is visible, the
\* submenu is not visible and the pointer is over the submenu's button; no
\* other step makes a submenu visible.
C11_OpenOnlyByValidCheck ==
    [][\A s \in Submenus :
          (~Visible(s) /\ Visible(s)') <=> (FiresOpenCheck(s) /\ OpenCondition(s))]_vars

\* An open-check has just opened a sub-submenu with no sibling open.
C11_Witness ==
    /\ last.op = "check_open"
    /\ last.hovered
    /\ last.hidden = {}
    /\ Len(last.arg) = 2
    /\ Visible(last.arg)
    /\ focus = last.arg

\* C12: an open-check that fires while its condition is false (the button is
\* not hovered, or the parent is not visible, or the submenu is already open)
\* changes no menu's visibility or position: no sibling submenu is closed.
C12_FailedOpenCheckIsNoOp ==
    [][\A s \in Submenus :
          (FiresOpenCheck(s) /\ ~OpenCondition(s)) => SameScreen]_vars

\* An open-check has fired after the pointer had left its button, while a
\* sibling submenu was open, and the sibling is still open.
C12_Witness ==
    /\ last.op = "check_open"
    /\ ~last.hovered
    /\ pointer # last.arg
    /\ ~Visible(last.arg)
    /\ \E c \in Children(MenuOf(last.arg)) : c # last.arg /\ Visible(c)

\* The pointer entered the button of submenu b, has stayed on it since, and
\* the open-check that fires in this step is the one that this entry
\* scheduled: the last one pending for b.
FiresEntryCheck(b) ==
    /\ FiresOpenCheck(b)
    /\ pointer = b
    /\ last.entry.anchor = b
    /\ pending'[<<"open", b>>] = 0
\* After the step submenu b is open and the siblings that were open when the
\* pointer entered are closed with everything below them.
SwitchedTo(b) ==
    /\ Visible(b)'
    /\ \A a \in last.entry.siblings : \A d \in Subtree(a) : ~Visible(d)'

\* C13 (as claimed): with a sibling submenu A open when the pointer enters the
\* button of B, and the pointer on that button until the open-check of B
\* fires, A and its descendants are closed and B is open after the check.
C13_SiblingSwitch ==
    [][\A b \in Submenus :
          (FiresEntryCheck(b) /\ last.entry.siblings # {}) => SwitchedTo(b)]_vars

\* C13 (amended): the same, provided the parent menu of A and B is still
\* visible at the moment the open-check of B fires.
C13_SiblingSwitchUnderVisibleParent ==
    [][\A b \in Submenus :
          (/\ FiresEntryCheck(b)
           /\ last.entry.siblings # {}
           /\ Visible(MenuOf(b))) => SwitchedTo(b)]_vars

\* The open-check of B has closed sibling A together with a submenu of A and
\* opened B, the pointer having stayed on the button of B.
C13_Witness ==
    /\ last.op = "check_open"
    /\ last.hovered
    /\ pointer = last.arg
    /\ last.entry.anchor = last.arg
    /\ last.entry.siblings # {}
    /\ last.entry.siblings \subseteq last.hidden
    /\ \E a \in last.entry.siblings : \E d \in last.hidden : d # a /\ IsPrefix(a, d)
    /\ Visible(last.arg)
    /\ pending[<<"open", last.arg>>] = 0

\* C14: when the pointer entered the button of a closed submenu under a
\* visible parent and is still on it, with the parent still visible, at the
\* moment the open-check scheduled by that entry fires, the submenu is open
\* after the check.
C14_HoverLeadsToOpen ==
    [][\A b \in Submenus :
          (/\ FiresEntryCheck(b)
           /\ ~last.entry.was_open
           /\ Visible(MenuOf(b))) => Visible(b)']_vars

\* The open-check scheduled by the entry has opened a submenu of the third
\* level that was closed, no sibling being open.
C14_Witness ==
    /\ last.op = "check_open"
    /\ last.hovered
    /\ pointer = last.arg
    /\ last.entry = [anchor |-> last.arg, was_open |-> FALSE, siblings |-> {}]
    /\ Len(last.arg) = 3
    /\ Visible(last.arg)
    /\ pending[<<"open", last.arg>>] = 0

\* C15 (as claimed): a step in which the pointer leaves the body of an open
\* submenu schedules a close-check for that submenu.
C15_BodyLeaveSchedulesClose ==
    [][\A s \in Submenus :
          (PointerOnBody(s) /\ pointer' # pointer /\ ~PointerOnBody(s)')
          => pending'[<<"close", s>>] = pending[<<"close", s>>] + 1]_vars

(***************************************************************************)
(* Properties of clicks and focus                                          *)
(***************************************************************************)
\* C17: while the top-level menu is visible the wrapper frame that catches
\* primary-button clicks outside the menus is placed, and after such a click
\* no menu, top-level or submenu, is visible.
C17_OutsideClickClosesAll ==
    /\ Visible(Main) => wrapper
    /\ last.op = "left_click" => (\A m \in Menus : ~Visible(m)) /\ ~wrapper

\* An outside click has just closed the top-level menu together with a chain
\* of three submenus.
C17_Witness ==
    /\ last.op = "left_click"
    /\ Main \in last.hidden
    /\ \E d \in last.hidden : Len(d) = 3
    /\ \A m \in Menus : ~Visible(m)

\* C18 (as claimed): when the visible top-level menu loses the keyboard focus
\* while none of its submenus is open, the top-level menu is closed.
C18_FocusLossClosesMain ==
    (last.op = "focus_out" /\ last.arg = Main /\ MappedChildren(Main) = {})
        => ~Visible(Main)

\* The check that fires in this step is of the given kind for submenu s, and
\* a newer check of the same kind for s stays pending after it
FiresEarlierCheck(kind, s) ==
    /\ last'.op = "check_" \o kind
    /\ last'.arg = s
    /\ pending[<<kind, s>>] >= 2

FireTimeView(s) ==
    [parent |-> winfo_ismapped(UI, MenuOf(s)),
     self |-> winfo_ismapped(UI, s),
     button |-> is_submenu_button_hovered(UI, s),
     body |-> is_submenu_hovered(UI, s)]
\* What the step does to submenu s
CheckOutcome(s) ==
    IF ~Visible(s) /\ Visible(s)' THEN "open"
    ELSE IF Visible(s) /\ ~Visible(s)' THEN "close"
    ELSE "none"
ExpectedOutcome(op, view) ==
    IF op = "check_open"
       THEN (IF view.parent /\ ~view.self /\ view.button THEN "open" ELSE "none")
       ELSE (IF view.self /\ ~view.button /\ ~view.body THEN "close" ELSE "none")

\* C20: the outcome of a fired open-check or close-check (open, close or no
\* change) is a function of the kind of the check and of the visibility and
\* hover state at the moment it fires, whatever the state was when the check
\* was scheduled.
C20_OutcomeFromFireTimeState ==
    [][\A s \in Submenus :
          (last'.op \in {"check_open", "check_close"} /\ last'.arg = s)
          => CheckOutcome(s) = ExpectedOutcome(last'.op, FireTimeView(s))]_vars

\* An open-check scheduled with its button hovered and its submenu closed has
\* fired after the pointer had left the button, and has opened nothing.
C20_Witness ==
    /\ last.op = "check_open"
    /\ last.entry.anchor = last.arg
    /\ ~last.entry.was_open
    /\ ~last.hovered
    /\ pointer # last.arg
    /\ Visible(MenuOf(last.arg))
    /\ ~Visible(last.arg)
    /\ MappedChildren(MenuOf(last.arg)) = {}

\* C21 (as claimed): an activation of a leaf button calls the button's
\* action exactly once, while the top-level menu and the chain of submenus
\* down to the leaf are still open, and the top-level menu is closed
\* afterwards.
C21_ActionThenClose ==
    last.op = "button_click" =>
        /\ last.func.calls = 1
        /\ \A m \in Menus : IsPrefix(m, MenuOf(last.arg)) => m \in last.func.seen
        /\ ~Visible(Main)

\* The placement that a right-click at the point pt computes
RightClickPlacement(pt) ==
    calc_menu_position(winfo_reqwidth(Main), winfo_reqheight(Main), pt[1], pt[2], 1, 0)

\* C22: a right-click places the top-level menu at the position computed from
\* the click point, leaves it visible and gives it the focus; when the menu
\* was open already it stays open and is placed at the new position.
C22_RightClickOpensAtPlacement ==
    [][last'.op = "right_click" =>
          /\ place_info'[Main] = RightClickPlacement(last'.arg)
          /\ Visible(Main)'
          /\ focus' = Main]_vars

\* A right-click on the open top-level menu has moved it to another position.
C22_Witness ==
    /\ last.op = "right_click"
    /\ last.closed # {}
    /\ last.hidden = last.closed
    /\ Visible(Main)
    /\ focus = Main
    /\ place_info[Main] = RightClickPlacement(<<1700, 950>>)
    /\ place_info[Main] # <<(1700 - 200) * DEFAULT_DPI, (950 - 200) * DEFAULT_DPI>>

(***************************************************************************)
(* A small menu in a window that is moved and resized while the menu is in *)
(* use.  Nothing is bound to <Configure>: the window geometry is read by   *)
(* calc_menu_position when it is called.                                   *)
(***************************************************************************)
small_menu == << Action("Copy"), Nested("Submenu", << Action("Sub-Copy") >>) >>

WindowEnvs ==
    { MainEnv,
      [MainEnv EXCEPT !.root_x = 260, !.root_y = 230],
      [MainEnv EXCEPT !.window_width = 1200, !.window_height = 600] }

\* The window is moved or resized
Configure(e) ==
    /\ built
    /\ e # env
    /\ env' = e
    /\ Note("configure", Main, FALSE, FALSE, {}, UI)
    /\ UNCHANGED <<menu_choices, menus, built, place_info, wrapper, focus, pointer,
                   pending, geo>>

InitMove ==
    /\ env = MainEnv
    /\ menu_choices = small_menu
    /\ menus = SlickContextMenu(small_menu)
    /\ built = TRUE
    /\ place_info = [m \in DOMAIN menus |-> Unplaced]
    /\ wrapper = FALSE
    /\ focus = NoFocus
    /\ pointer = NoWidget
    /\ pending = [c \in {"open", "close"} \X ((DOMAIN menus) \ {Main}) |-> 0]
    /\ last = Idle
    /\ geo = NoCall

NextMove ==
    \/ Next
    \/ \E e \in WindowEnvs : Configure(e)

SpecMove == InitMove /\ [][NextMove]_vars

\* The step places menu m at coordinates it was not placed at before
Repositioned(m) == place_info'[m] # Unplaced /\ place_info'[m] # place_info[m]
\* The step opens menu m: a right-click for the top-level menu, an open-check
\* whose condition holds for a submenu
OpensMenu(m) ==
    IF m = Main THEN last'.op = "right_click"
                ELSE FiresOpenCheck(m) /\ OpenCondition(m)

\* C23: a menu is placed at new coordinates only by a step that opens that
\* menu; a move or resize of the window, hover events, closing handlers and
\* checks that do not open the menu leave the coordinates of every placed
\* menu as they are.
C23_PositionSetOnlyOnOpen ==
    [][\A m \in Menus : Repositioned(m) => OpensMenu(m)]_vars

\* The window has been moved or resized while the top-level menu and its
\* submenu were open.
C23_Witness ==
    /\ last.op = "configure"
    /\ env # MainEnv
    /\ Visible(Main)
    /\ Visible(<<2>>)

(***************************************************************************)
(* A wide menu: the submenu "Submenu" is the second frame created, and the *)
(* last of the submenus it holds is frame number WideFanout + 2, whose     *)
(* winfo_name begins with the winfo_name of "Submenu".  The pointer visits *)
(* the buttons of "Submenu", of its first and of its last submenu.         *)
(***************************************************************************)
wide_menu ==
    << Action("Copy"),
       Nested("Submenu", [i \in 1..WideFanout |-> Nested("Sub", << Action("Leaf") >>)]) >>

WideAnchors == {<<2>>, <<2, 1>>, <<2, WideFanout>>}
WideTargets == {NoWidget, <<1>>, <<2, 1, 1>>, <<2, WideFanout, 1>>}

InitWide ==
    /\ env = MainEnv
    /\ menu_choices = wide_menu
    /\ menus = SlickContextMenu(wide_menu)
    /\ built = TRUE
    /\ place_info = [m \in DOMAIN menus |-> Unplaced]
    /\ wrapper = FALSE
    /\ focus = NoFocus
    /\ pointer = NoWidget
    /\ pending = [c \in {"open", "close"} \X ((DOMAIN menus) \ {Main}) |-> 0]
    /\ last = Idle
    /\ geo = NoCall

NextWide ==
    \/ \E pt \in ClickPoints : RightClick(pt)
    \/ \E b \in WideAnchors : HoverEnter(b)
    \/ \E b \in WideAnchors, to \in WideTargets : HoverLeave(b, to)
    \/ \E to \in WideTargets : PointerMove(to)
    \/ \E s \in WideAnchors : FireOpen(s)
    \/ \E s \in WideAnchors : FireClose(s)

SpecWide == InitWide /\ [][NextWide]_vars

\* C16 (as claimed): a close-check of a submenu that fires while the pointer
\* is over neither the submenu's button nor the submenu's body leaves the
\* submenu closed, together with every submenu below it.
C16_CloseCheckCloses ==
    [][\A s \in Submenus :
          (FiresCloseCheck(s) /\ ~PointerOnAnchor(s) /\ ~PointerOnBody(s))
          => \A d \in Subtree(s) : ~Visible(d)']_vars

\* C31 (as claimed): a close-check of an open submenu S that fires while the
\* pointer is over an open submenu below S, hence over neither the button of
\* S nor a widget of S itself, closes S together with that descendant.
C31_DescendantHoverClosesAncestor ==
    [][\A s \in Submenus : \A d \in Subtree(s) \ {s} :
          (FiresCloseCheck(s) /\ Visible(s) /\ PointerOnBody(d))
          => (~Visible(s)' /\ ~Visible(d)')]_vars

(***************************************************************************)
(* calc_menu_position on its own: Init draws the window, the DPI and the   *)
(* arguments, Calc applies the function.                                   *)
(***************************************************************************)
GeoEnvs ==
    [dpi : {(DEFAULT_DPI \div 2) * k : k \in 1..MaxDpiStep},
     root_x : {0, 200}, root_y : {200},
     window_width : {2 * GeoUnit, MaxCell * GeoUnit},
     window_height : {2 * GeoUnit, MaxCell * GeoUnit}]

GeoSizes == {GeoUnit, 2 * GeoUnit, MaxCell * GeoUnit}
GeoOffsets == {k * GeoUnit : k \in (-1)..(MaxCell + 1)}

GeoArgs(e) ==
    [menu_width : GeoSizes, menu_height : GeoSizes,
     x_in : {e.root_x + d : d \in GeoOffsets},
     y_in : {e.root_y + d : d \in GeoOffsets},
     menu_depth : {1, 2, 3},
     parent_menu_width : {0, 2, GeoUnit}]

\* Scenario example 1 of the specification: a 1520x780 window at (200, 200),
\* a 140x200 top-level menu, a click at the screen point (1950, 900).
ScenarioEnv == MainEnv
ScenarioArgs ==
    [menu_width |-> 140, menu_height |-> 200, x_in |-> 1950, y_in |-> 900,
     menu_depth |-> 1, parent_menu_width |-> 0]

InitGeo ==
    /\ \/ env \in GeoEnvs /\ \E a \in GeoArgs(env) : geo = [phase |-> "args", args |-> a]
       \/ env = ScenarioEnv /\ geo = [phase |-> "args", args |-> ScenarioArgs]
    /\ menu_choices = menu_dict
    /\ menus = SlickContextMenu(menu_dict)
    /\ built = TRUE
    /\ place_info = [m \in DOMAIN menus |-> Unplaced]
    /\ wrapper = FALSE
    /\ focus = NoFocus
    /\ pointer = NoWidget
    /\ pending = [c \in {"open", "close"} \X ((DOMAIN menus) \ {Main}) |-> 0]
    /\ last = Idle

Calc ==
    /\ geo.phase = "args"
    /\ geo' = [phase |-> "done", args |-> geo.args,
               result |-> calc_menu_position(
                              geo.args.menu_width, geo.args.menu_height,
                              geo.args.x_in, geo.args.y_in,
                              geo.args.menu_depth, geo.args.parent_menu_width)]
    /\ UNCHANGED <<env, menu_choices, menus, built, place_info, wrapper, focus,
                   pointer, pending, last>>

NextGeo == Calc

SpecGeo == InitGeo /\ [][NextGeo]_vars

(***************************************************************************)
(* Properties of calc_menu_position.  With s = dpi / 96 and the result     *)
(* kept as <<x * dpi, y * dpi>>:  x + w <= W / s  is  X + w*dpi <= W*96,   *)
(* and  x * s + w <= W  is  X + w*96 <= W*96.                              *)
(***************************************************************************)
GeoDone == geo.phase = "done"
MenuFitsWindow ==
    /\ geo.args.menu_width <= env.window_width
    /\ geo.args.menu_height <= env.window_height
AnchorInWindow ==
    /\ 0 <= geo.args.x_in - env.root_x
    /\ geo.args.x_in - env.root_x <= env.window_width
    /\ 0 <= geo.args.y_in - env.root_y
    /\ geo.args.y_in - env.root_y <= env.window_height

\* C7 (as claimed): for every menu no larger than the window, every anchor
\* point, depth and scale factor, the returned (x, y) satisfies 0 <= x,
\* 0 <= y, x + menu_width <= window_width / scale_factor and
\* y + menu_height <= window_height / scale_factor.
C7_ContainedAsClaimed ==
    (GeoDone /\ MenuFitsWindow) =>
        /\ 0 <= geo.result[1]
        /\ 0 <= geo.result[2]
        /\ geo.result[1] + geo.args.menu_width * env.dpi
              <= env.window_width * DEFAULT_DPI
        /\ geo.result[2] + geo.args.menu_height * env.dpi
              <= env.window_height * DEFAULT_DPI

\* C7 (amended): for every menu no larger than the window, every anchor
\* point inside the window, every scale factor, and depth 1 or a submenu
\* whose parent_menu_width is at least 4 * scale_factor, the returned (x, y)
\* satisfies 0 <= x, 0 <= y, x * scale_factor + menu_width <= window_width
\* and y * scale_factor + menu_height <= window_height.
C7_ContainedInWindowPixels ==
    (/\ GeoDone
     /\ MenuFitsWindow
     /\ AnchorInWindow
     /\ \/ geo.args.menu_depth = 1
        \/ geo.args.parent_menu_width * DEFAULT_DPI >= submenu_x_shift_left * env.dpi)
    =>  /\ 0 <= geo.result[1]
        /\ 0 <= geo.result[2]
        /\ geo.result[1] + geo.args.menu_width * DEFAULT_DPI
              <= env.window_width * DEFAULT_DPI
        /\ geo.result[2] + geo.args.menu_height * DEFAULT_DPI
              <= env.window_height * DEFAULT_DPI

\* A submenu at a scale factor above 1 whose x came out negative and was
\* pinned to the right edge, with its y shifted down and capped.
C7_Witness ==
    /\ GeoDone /\ MenuFitsWindow /\ AnchorInWindow
    /\ geo.args.menu_depth > 1
    /\ geo.args.parent_menu_width * DEFAULT_DPI >= submenu_x_shift_left * env.dpi
    /\ env.dpi > DEFAULT_DPI
    /\ geo.args.menu_width < env.window_width
    /\ geo.result[1] = (env.window_width - geo.args.menu_width) * DEFAULT_DPI
    /\ geo.result[2] = (env.window_height - geo.args.menu_height) * DEFAULT_DPI
    /\ geo.args.y_in - env.root_y + geo.args.menu_height <= env.window_height

IsScenario == env = ScenarioEnv /\ geo.args = ScenarioArgs

\* C8 (as claimed): in scenario example 1 the returned position gives a
\* rectangle fully inside [0, 1520] x [0, 780].
C8_ScenarioInsideWindow ==
    (GeoDone /\ IsScenario) =>
        /\ 0 <= geo.result[1]
        /\ geo.result[1] + 140 * DEFAULT_DPI <= 1520 * DEFAULT_DPI
        /\ 0 <= geo.result[2]
        /\ geo.result[2] + 200 * DEFAULT_DPI <= 780 * DEFAULT_DPI

\* C8 (amended): in scenario example 1 calc_menu_position flips the menu on
\* both axes and returns (1750 - 140, 700 - 200) = (1610, 500): the rectangle
\* is inside [0, 780] vertically, and horizontally it spans [1610, 1750],
\* beyond the window's width of 1520.
C8_ScenarioFlipsBoth ==
    (GeoDone /\ IsScenario) =>
        /\ geo.result = <<1610 * DEFAULT_DPI, 500 * DEFAULT_DPI>>
        /\ geo.result[1] = (1950 - 200) * DEFAULT_DPI - 140 * DEFAULT_DPI
        /\ geo.result[2] = (900 - 200) * DEFAULT_DPI - 200 * DEFAULT_DPI
        /\ 0 <= geo.result[2]
        /\ geo.result[2] + 200 * DEFAULT_DPI <= 780 * DEFAULT_DPI
        /\ geo.result[1] + 140 * DEFAULT_DPI > 1520 * DEFAULT_DPI

\* The scenario has been computed.
C8_Witness == GeoDone /\ IsScenario

(***************************************************************************)
(* The wrapper frame, and the checks that outlive the menu.                *)
(***************************************************************************)
\* C32: in every reachable state the wrapper frame that catches the clicks
\* outside the menu is placed if and only if the top-level menu is visible.
C32_WrapperIffMainVisible == wrapper <=> Visible(Main)

\* A leaf button two levels down has been activated: the wrapper and the
\* top-level menu are both gone.
C32_Witness ==
    /\ last.op = "button_click"
    /\ ~last.raised
    /\ Len(last.arg) = 3
    /\ ~wrapper
    /\ ~Visible(Main)

AllClosed == \A m \in Menus : ~Visible(m)
FiresCheck == last'.op \in {"check_open", "check_close"}
ClosesMain == last'.op = "left_click" \/ (last'.op = "button_click" /\ ~last'.raised)

\* C33: an outside click or a completed leaf activation leaves every menu
\* closed, and from a state in which every menu is closed no fired check, and
\* no step other than a right-click, makes a menu visible.
C33_StaleChecksOpenNothing ==
    [][/\ ClosesMain => AllClosed'
       /\ (AllClosed /\ FiresCheck) => AllClosed'
       /\ (AllClosed /\ ~AllClosed') => last'.op = "right_click"]_vars

\* An open-check that was scheduled by a hover fires after the menu has been
\* closed, and opens nothing.
C33_Witness ==
    /\ last.op = "check_open"
    /\ last.entry.anchor = last.arg
    /\ ~last.hovered
    /\ AllClosed
    /\ ~wrapper

\* C34: a fired open-check or close-check leaves the visibility of the
\* top-level menu as it was; only a right-click makes the top-level menu
\* visible, and only an outside click or a leaf activation closes it.
C34_MainVisibilityByClicksOnly ==
    [][/\ FiresCheck => (Visible(Main)' <=> Visible(Main))
       /\ (~Visible(Main) /\ Visible(Main)') => last'.op = "right_click"
       /\ (Visible(Main) /\ ~Visible(Main)') =>
             last'.op \in {"left_click", "button_click"}]_vars

\* A close-check has just closed a submenu of the top-level menu together
\* with a submenu below it, and the top-level menu is still visible.
C34_Witness ==
    /\ last.op = "check_close"
    /\ Len(last.arg) = 1
    /\ last.arg \in last.closed
    /\ Cardinality(last.hidden) >= 2
    /\ Visible(Main)

\* C35: right after a right-click the top-level menu is visible and no
\* submenu is, whatever was open before.
C35_RightClickResets ==
    last.op = "right_click" => (Visible(Main) /\ \A s \in Submenus : ~Visible(s))

\* A right-click has closed a chain of submenus three levels deep and left
\* the top-level menu alone on screen.
C35_Witness ==
    /\ last.op = "right_click"
    /\ \E d \in last.hidden : Len(d) = 3
    /\ Visible(Main)
    /\ \A s \in Submenus : ~Visible(s)

(***************************************************************************)
(* The timers.  after() calls its callback once, from the event loop, so a *)
(* pending check is not postponed for ever while the application runs.     *)
(* The menu has a submenu and a submenu below it.                          *)
(***************************************************************************)
chain_menu ==
    << Action("Copy"),
       Nested("Submenu", << Action("Sub-Copy"),
                            Nested("SubSubMenu", << Action("Sub-Cut") >>) >>) >>

InitLive ==
    /\ env = MainEnv
    /\ menu_choices = chain_menu
    /\ menus = SlickContextMenu(chain_menu)
    /\ built = TRUE
    /\ place_info = [m \in DOMAIN menus |-> Unplaced]
    /\ wrapper = FALSE
    /\ focus = NoFocus
    /\ pointer = NoWidget
    /\ pending = [c \in {"open", "close"} \X ((DOMAIN menus) \ {Main}) |-> 0]
    /\ last = Idle
    /\ geo = NoCall

FireSome == \E s \in Submenus : FireOpen(s) \/ FireClose(s)
SpecLive == InitLive /\ [][Next]_vars /\ WF_vars(FireSome)

\* The pending checks with one more, or one less, of the given kind for s
OneMore(kind, s) == [pending EXCEPT ![<<kind, s>>] = @ + 1]
OneLess(kind, s) == [pending EXCEPT ![<<kind, s>>] = @ - 1]
TimersCounted ==
    /\ last'.op = "hover_enter" => pending' = OneMore("open", last'.arg)
    /\ last'.op = "hover_leave" => pending' = OneMore("close", last'.arg)
    /\ (last'.op = "focus_out" /\ last'.arg # Main) =>
          pending' = OneMore("close", last'.arg)
    /\ last'.op = "check_open" =>
          pending[<<"open", last'.arg>>] > 0 /\ pending' = OneLess("open", last'.arg)
    /\ last'.op = "check_close" =>
          pending[<<"close", last'.arg>>] > 0 /\ pending' = OneLess("close", last'.arg)
    /\ (\/ last'.op \in {"right_click", "left_click", "button_click", "move"}
        \/ (last'.op = "focus_out" /\ last'.arg = Main)) => pending' = pending

\* C36: an entry of the pointer on a SubmenuButton schedules exactly one
\* open-check, a leave of a SubmenuButton or a focus loss of a submenu exactly
\* one close-check; a check that fires is removed from the pending ones and
\* schedules nothing; and if from some point on nothing happens but fired
\* checks, then from some point on no check is pending and no frame is placed
\* or forgotten any more.
C36_ChecksCountedAndDrain ==
    /\ [][TimersCounted]_vars
    /\ <>[][FiresCheck]_vars =>
          (<>[](NumPending = 0) /\ <>[][place_info' = place_info]_vars)

\* The last pending check has fired and closed a submenu: nothing is pending.
C36_Witness ==
    /\ last.op = "check_close"
    /\ last.arg \in last.hidden
    /\ NumPending = 0
    /\ Visible(Main)
    /\ pointer = NoWidget

(***************************************************************************)
(* The frames against the mapping they were built from.                    *)
(***************************************************************************)
RECURSIVE ItemsMirror(_, _)
\* The menu at path m shows the entries of the mapping mc one for one and in
\* order: the i-th item carries the i-th key, a callable is a button, a
\* nested mapping is a SubmenuButton with exactly one submenu frame, listed
\* once among the submenus of m and itself mirroring the nested mapping.
ItemsMirror(m, mc) ==
    /\ m \in DOMAIN menus
    /\ Len(menus[m].buttons) = Len(mc)
    /\ \A i \in 1..Len(mc) :
          /\ menus[m].buttons[i].text = text_padding \o mc[i][1]
          /\ menus[m].buttons[i].kind =
                (IF mc[i][2] = "dict" THEN "submenu" ELSE "button")
          /\ mc[i][2] = "dict" =>
                /\ Cardinality({k \in DOMAIN menus[m].descendant_submenus :
                                   menus[m].descendant_submenus[k] = Append(m, i)}) = 1
                /\ ItemsMirror(Append(m, i), mc[i][3])
          /\ mc[i][2] # "dict" =>
                /\ Append(m, i) \notin DOMAIN menus
                /\ \A k \in DOMAIN menus[m].descendant_submenus :
                      menus[m].descendant_submenus[k] # Append(m, i)

\* Every frame hangs below a SubmenuButton of a frame that exists.
FramesAnchored ==
    \A s \in (DOMAIN menus) \ {Main} :
        /\ Front(s) \in DOMAIN menus
        /\ Last(s) \in 1..Len(menus[Front(s)].buttons)
        /\ menus[Front(s)].buttons[Last(s)].kind = "submenu"

\* C26: every submenu of every menu exists when construction ends, all of
\* them closed, and no later event (click, hover, focus change, fired check)
\* adds, removes or re-attaches a submenu.
C26_ChildrenFixedAtConstruction ==
    /\ ItemsMirror(Main, menu_choices)
    /\ FramesAnchored
    /\ \A m \in DOMAIN menus : ~winfo_ismapped(UI, m)
    /\ [][menus' = menus /\ menu_choices' = menu_choices]_vars

\* A submenu of the third level has just been opened by its check, and
\* its parent has the two submenus it was built with.
C26_Witness ==
    /\ winfo_ismapped(UI, <<3, 2, 3>>)
    /\ last.op = "check_open" /\ last.arg = <<3, 2, 3>>
    /\ Children(<<3, 2>>) = {<<3, 2, 2>>, <<3, 2, 3>>}
    /\ ItemsMirror(Main, menu_choices)

(***************************************************************************)
(* The steps of calc_menu_position.  All values are in units of 1 / dpi:   *)
(* v / scale_factor is v * 96, and a constant c added to a normalised      *)
(* coordinate is c * dpi.                                                  *)
(***************************************************************************)
ScreenX == geo.args.x_in - env.root_x
ScreenY == geo.args.y_in - env.root_y
NormX == ScreenX * DEFAULT_DPI
NormY == ScreenY * DEFAULT_DPI
OverflowX == ScreenX + geo.args.menu_width > env.window_width
OverflowY == ScreenY + geo.args.menu_height > env.window_height
Max0(v) == IF v < 0 THEN 0 ELSE v
\* x and y as they leave the horizontal and the vertical step
StepX ==
    window_edge_x(geo.args.menu_depth, geo.args.menu_width,
                  geo.args.parent_menu_width, ScreenX)
StepY == window_edge_y(geo.args.menu_depth, geo.args.menu_height, ScreenY)
CapY == (env.window_height - geo.args.menu_height) * DEFAULT_DPI

\* C24 (as claimed): when the menu is larger than the window on an axis, the
\* coordinate returned for that axis is 0, never negative.
C24_OversizeClampedToZero ==
    (GeoDone /\ AnchorInWindow) =>
        /\ geo.args.menu_width > env.window_width => geo.result[1] = 0
        /\ geo.args.menu_height > env.window_height => geo.result[2] = 0

\* C27: for a top-level menu whose rectangle, placed at the window-relative
\* anchor, stays inside the window on both axes, with the anchor inside the
\* window, the result is exactly the window-relative anchor divided by the
\* scale factor.
C27_FittingTopLevelUncorrected ==
    (/\ GeoDone
     /\ geo.args.menu_depth = 1
     /\ AnchorInWindow
     /\ ~OverflowX
     /\ ~OverflowY) => geo.result = <<NormX, NormY>>

\* A fitting top-level menu at a scale factor of 1.5, away from the origin.
C27_Witness ==
    /\ GeoDone
    /\ geo.args.menu_depth = 1
    /\ AnchorInWindow /\ ~OverflowX /\ ~OverflowY
    /\ env.dpi = 3 * (DEFAULT_DPI \div 2)
    /\ ScreenX > 0 /\ ScreenY > 0
    /\ geo.result = <<NormX, NormY>>

\* y as C28 states it
ExpectedY ==
    IF OverflowY
       THEN Max0(IF geo.args.menu_depth = 1
                    THEN NormY - geo.args.menu_height * DEFAULT_DPI
                    ELSE CapY)
       ELSE NormY

\* C28: the vertical correction is applied if and only if the unscaled bottom
\* edge exceeds window_height; y then becomes max(0, norm.y - menu_height /
\* scale_factor) for a top-level menu and max(0, (window_height - menu_height)
\* / scale_factor) for a submenu, and it is the returned y unless the
\* left-edge correction of a submenu changes it.
C28_VerticalCorrection ==
    GeoDone =>
        /\ StepY = ExpectedY
        /\ (geo.args.menu_depth = 1 \/ StepX >= 0) => geo.result[2] = ExpectedY

\* A top-level menu flipped upwards and clamped to 0.
C28_Witness ==
    /\ GeoDone
    /\ geo.args.menu_depth = 1
    /\ OverflowY
    /\ ScreenY > 0
    /\ NormY - geo.args.menu_height * DEFAULT_DPI < 0
    /\ geo.result[2] = 0

\* x as C29 states it
ExpectedX ==
    IF OverflowX
       THEN (IF geo.args.menu_depth = 1
                THEN NormX - geo.args.menu_width * DEFAULT_DPI
                ELSE NormX
                     - (geo.args.parent_menu_width + geo.args.menu_width) * DEFAULT_DPI
                     + 4 * env.dpi)
       ELSE (IF geo.args.menu_depth = 1 THEN NormX ELSE NormX - 4 * env.dpi)

\* C29: when the unscaled right edge exceeds window_width, x becomes norm.x -
\* menu_width / scale_factor for depth 1 and norm.x - (parent_menu_width +
\* menu_width) / scale_factor + 4 for depth > 1; without horizontal overflow
\* x is norm.x for depth 1 and norm.x - 4 for depth > 1; that x is returned
\* unless it is negative.
C29_HorizontalCorrection ==
    GeoDone =>
        /\ StepX = ExpectedX
        /\ ExpectedX >= 0 => geo.result[1] = ExpectedX

\* A submenu of depth 3 flipped to the left of a parent of width GeoUnit.
C29_Witness ==
    /\ GeoDone
    /\ geo.args.menu_depth = 3
    /\ geo.args.parent_menu_width = GeoUnit
    /\ OverflowX
    /\ ExpectedX > 0
    /\ geo.result[1] = ExpectedX
    /\ env.dpi > DEFAULT_DPI

\* C30: when x is negative after the horizontal step it is replaced by
\* (window_width - menu_width) / scale_factor, and the y of a submenu is then
\* increased by 8 and capped at (window_height - menu_height) / scale_factor,
\* so that it never exceeds the cap; when x is not negative, x and y are
\* returned as the previous steps left them.
C30_LeftEdgeCorrection ==
    GeoDone =>
        IF StepX < 0
           THEN /\ geo.result[1] = (env.window_width - geo.args.menu_width) * DEFAULT_DPI
                /\ geo.args.menu_depth = 1 => geo.result[2] = StepY
                /\ geo.args.menu_depth > 1 =>
                      /\ geo.result[2] = (IF StepY + 8 * env.dpi > CapY
                                             THEN CapY ELSE StepY + 8 * env.dpi)
                      /\ geo.result[2] <= CapY
           ELSE geo.result = <<StepX, StepY>>

\* A submenu whose negative x was replaced and whose y was shifted down by 8
\* without reaching the cap.
C30_Witness ==
    /\ GeoDone
    /\ geo.args.menu_depth > 1
    /\ StepX < 0
    /\ StepY + 8 * env.dpi < CapY
    /\ geo.result[2] = StepY + 8 * env.dpi
    /\ geo.result[1] = (env.window_width - geo.args.menu_width) * DEFAULT_DPI

(***************************************************************************)
(* Construction on its own: Init draws the mapping, CreateMenu builds the  *)
(* SlickContextMenu from it.                                               *)
(***************************************************************************)
Keys == <<"a", "b", "c", "d">>
\* The mappings with keys Keys[1..n], n <= MaxEntries, and values from vals
MappingsOver(vals) ==
    UNION {{[i \in 1..n |-> <<Keys[i], v[i][1], v[i][2]>>] : v \in [1..n -> vals]}
           : n \in 0..MaxEntries}
LeafValues == {<<"callable", <<>>>>, <<"other", <<>>>>}
FlatMappings == MappingsOver(LeafValues)
NestedMappings == MappingsOver(LeafValues \cup {<<"dict", m>> : m \in FlatMappings})
BuildInputs ==
    NestedMappings \cup {<<Nested("a", m)>> : m \in NestedMappings}

RECURSIVE InvalidKeys(_)
\* The keys, at any nesting level, whose value is neither callable nor a dict
InvalidKeys(mc) ==
    IF mc = <<>> THEN {}
    ELSE LET e == Head(mc)
         IN  (IF e[2] = "other" THEN {e[1]}
              ELSE IF e[2] = "dict" THEN InvalidKeys(e[3]) ELSE {})
             \cup InvalidKeys(Tail(mc))

InitBuild ==
    /\ env = MainEnv
    /\ menu_choices \in BuildInputs
    /\ menus = NoFrames
    /\ built = FALSE
    /\ place_info = NoFrames
    /\ wrapper = FALSE
    /\ focus = NoFocus
    /\ pointer = NoWidget
    /\ pending = NoFrames
    /\ last = Idle
    /\ geo = NoCall

\* SlickContextMenu(parent, menu_choices): no statement on the way from
\* SlickContextMenu.__init__ to process_menu_choices raises on a value.
CreateMenu ==
    /\ ~built
    /\ built' = TRUE
    /\ menus' = SlickContextMenu(menu_choices)
    /\ place_info' = [m \in DOMAIN menus' |-> Unplaced]
    /\ pending' = [c \in {"open", "close"} \X ((DOMAIN menus') \ {Main}) |-> 0]
    /\ last' = [Idle EXCEPT !.op = "create_menu", !.raised = FALSE]
    /\ UNCHANGED <<env, menu_choices, wrapper, focus, pointer, geo>>

NextBuild == CreateMenu

SpecBuild == InitBuild /\ [][NextBuild]_vars

\* C9 (as claimed): building a menu from a mapping in which some value, at
\* any nesting level, is neither callable nor a mapping fails with an error
\* and builds nothing.
C9_InvalidEntryRejected ==
    (last.op = "create_menu" /\ InvalidKeys(menu_choices) # {}) =>
        (last.raised /\ menus = NoFrames)

\* C25 (as claimed): at every nesting level the i-th entry of the mapping is
\* the i-th item of the built menu, and each nested mapping is exactly one
\* submenu attached to the item of its key.
C25_ItemsInInsertionOrder ==
    last.op = "create_menu" => (ItemsMirror(Main, menu_choices) /\ FramesAnchored)

====
